---- MODULE Spec2Model ----
(***************************************************************************)
(* Model of app.py: the /api/plan handler, request validation by the       *)
(* TravelInput schema, get_llm, extract_content and the four-call prompt   *)
(* pipeline of plan_trip.                                                  *)
(*                                                                         *)
(* Python text is a sequence of tokens: data strings are spelled character *)
(* by character ("ab" is <<"a","b">>), the literal fragments of an         *)
(* f-string are one token each. Concatenation is \o, the empty string is   *)
(* <<>>.                                                                   *)
(***************************************************************************)
EXTENDS Integers, Sequences, FiniteSets, TLC

VARIABLES
    api_key,        \* os.getenv("GOOGLE_API_KEY"): <<>> when unset, else <<text>>
    importable,     \* whether langchain_google_genai can be imported
    body,           \* the JSON body of the POST /api/plan request
    pc,             \* position of the handler
    invoking,       \* an llm.invoke call has started and has not returned
    travel_input,   \* the validated TravelInput, <<>> before validation
    llm,            \* what get_llm() returned: "None", "ChatGoogleGenerativeAI"
    state,          \* plan_trip's state dict (step name -> text)
    calls,          \* the invocations made so far: [step, prompt]
    replies,        \* the raw responses llm.invoke returned so far
    response,       \* the argument of extract_content
    extracted,      \* the result of extract_content
    exc,            \* the exception llm.invoke raised: <<>> or <<message>>
    plan,           \* the TravelPlan plan_trip returned: <<>> or <<plan>>
    http            \* the HTTP answer: [status, detail, plan]

vars == <<api_key, importable, body, pc, invoking, travel_input, llm, state,
          calls, replies, response, extracted, exc, plan, http>>

----------------------------------------------------------------------------
(* Bounds *)

\* longest list of chunks in a response's content
MaxChunks == 2
\* longest list of interests in a request
MaxInterests == 2

----------------------------------------------------------------------------
(* Python values *)

PyNone == [kind |-> "none", s |-> <<>>, n |-> 0, keys |-> <<>>, items |-> <<>>]
PyStr(t) == [kind |-> "str", s |-> t, n |-> 0, keys |-> <<>>, items |-> <<>>]
PyInt(i) == [kind |-> "int", s |-> <<>>, n |-> i, keys |-> <<>>, items |-> <<>>]
PyList(vs) == [kind |-> "list", s |-> <<>>, n |-> 0, keys |-> <<>>, items |-> vs]
\* a dict with the keys ks (texts) and the values vs, in insertion order
PyDict(ks, vs) == [kind |-> "dict", s |-> <<>>, n |-> 0, keys |-> ks, items |-> vs]
\* an object with a .content attribute (the message llm.invoke returns)
PyMsg(c) == [kind |-> "msg", s |-> <<>>, n |-> 0, keys |-> <<>>, items |-> <<c>>]

Digits == <<"0", "1", "2", "3", "4", "5", "6", "7", "8", "9">>

RECURSIVE IntToStr(_)
\* str(i) of an int
IntToStr(i) ==
    IF i < 0 THEN <<"-">> \o IntToStr(0 - i)
    ELSE IF i < 10 THEN <<Digits[i + 1]>>
    ELSE IntToStr(i \div 10) \o <<Digits[(i % 10) + 1]>>

RECURSIVE Join(_, _)
\* sep.join(ts) of a list of texts
Join(sep, ts) ==
    IF ts = <<>> THEN <<>>
    ELSE IF Len(ts) = 1 THEN ts[1]
    ELSE ts[1] \o sep \o Join(sep, Tail(ts))

RECURSIVE PyRepr(_)
\* repr(v): a str in quotes, a list in brackets, a dict in braces
PyRepr(v) ==
    CASE v.kind = "str" -> <<"'">> \o v.s \o <<"'">>
      [] v.kind = "int" -> IntToStr(v.n)
      [] v.kind = "none" -> <<"N", "o", "n", "e">>
      [] v.kind = "list" ->
            <<"[">> \o Join(<<",", " ">>,
                            [i \in 1..Len(v.items) |-> PyRepr(v.items[i])])
                    \o <<"]">>
      [] v.kind = "dict" ->
            <<"{">> \o Join(<<",", " ">>,
                            [i \in 1..Len(v.items) |->
                                <<"'">> \o v.keys[i] \o <<"'", ":", " ">>
                                        \o PyRepr(v.items[i])])
                    \o <<"}">>

\* str(v): a str is itself, everything else is its repr
PyStrOf(v) == IF v.kind = "str" THEN v.s ELSE PyRepr(v)

\* d.get(key, default) of a dict
DictGet(d, key, default) ==
    IF \E i \in 1..Len(d.keys) : d.keys[i] = key
    THEN d.items[CHOOSE i \in 1..Len(d.keys) : d.keys[i] = key]
    ELSE default

\* hasattr(v, 'content'): a message object has the attribute; a str, an int,
\* None, a list and a dict (whatever its keys) have not
HasContentAttr(v) == v.kind = "msg"

TextKey == <<"t", "e", "x", "t">>
ContentKey == <<"c", "o", "n", "t", "e", "n", "t">>

----------------------------------------------------------------------------
(* extract_content *)

\* mutant: chunk.get("text") with no default, so a missing key gives None
ChunkText_NoDefault(chunk) ==
    IF chunk.kind = "dict"
    THEN PyStrOf(DictGet(chunk, TextKey, PyNone))
    ELSE PyStrOf(chunk)

\* the text one chunk of a content list contributes
ChunkText(chunk) ==
    IF chunk.kind = "dict"
    THEN PyStrOf(DictGet(chunk, TextKey, PyStr(<<>>)))
    ELSE PyStrOf(chunk)

RECURSIVE JoinChunks(_)
\* "".join(... for chunk in content)
JoinChunks(chunks) ==
    IF chunks = <<>> THEN <<>>
    ELSE ChunkText(Head(chunks)) \o JoinChunks(Tail(chunks))

extract_content(r) ==
    IF r.kind = "str" THEN r.s
    ELSE IF HasContentAttr(r)
         THEN LET content == r.items[1]
              IN  IF content.kind = "list"
                  THEN JoinChunks(content.items)
                  ELSE PyStrOf(content)
         ELSE PyStrOf(r)

----------------------------------------------------------------------------
(* The request and its validation *)

Goa == <<"G", "o", "a">>
Baga == <<"B", "a", "g", "a">>
Budget == <<"b", "u", "d", "g", "e", "t">>
Sea == <<"s", "e", "a">>
Food == <<"f", "o", "o", "d">>

\* the sequences over S of length at most n
SeqsUpTo(S, n) == UNION {[1..k -> S] : k \in 0..n}

\* A JSON body. A string field is <<>> when the key is missing and <<text>>
\* when it is present; the text may be the empty string.
Bodies ==
    [destination : {<<>>, <<<<>>>>, <<Goa>>},
     area : {<<>>, <<<<>>>>, <<Baga>>},
     duration_days : {-1, 0, 3},
     budget : {-5, 0, 30000},
     travel_type : {<<>>, <<<<>>>>, <<Budget>>},
     interests : SeqsUpTo({Sea, Food}, MaxInterests)]

\* mutant: ge=0 in place of gt=0
TravelInputValid_Ge0(b) ==
    /\ b.destination # <<>>
    /\ b.travel_type # <<>>
    /\ b.duration_days >= 0
    /\ b.budget >= 0

\* TravelInput's Field declarations: destination and travel_type are required
\* (Field(...)) with no constraint on their length, duration_days and budget
\* are gt=0, area defaults to None and interests to the empty list
TravelInputValid(b) ==
    /\ b.destination # <<>>
    /\ b.travel_type # <<>>
    /\ b.duration_days > 0
    /\ b.budget > 0

\* the TravelInput built from a valid body; area is <<>> for None
TravelInput(b) ==
    [destination |-> b.destination[1],
     area |-> b.area,
     duration_days |-> b.duration_days,
     budget |-> b.budget,
     travel_type |-> b.travel_type[1],
     interests |-> b.interests]

----------------------------------------------------------------------------
(* get_llm *)

\* "not api_key": the variable is unset (None) or is the empty string
NotApiKey(key) == key = <<>> \/ key[1] = <<>>

\* mutant: "if api_key is None", which lets the empty string through
get_llm_KeyIsNone(key, imp) ==
    IF key = <<>> THEN "None"
    ELSE IF imp THEN "ChatGoogleGenerativeAI"
    ELSE "None"

\* mutant: "if api_key" in place of "if not api_key"
get_llm_Inverted(key, imp) ==
    IF ~NotApiKey(key) THEN "None"
    ELSE IF imp THEN "ChatGoogleGenerativeAI"
    ELSE "None"

get_llm(key, imp) ==
    IF NotApiKey(key) THEN "None"
    ELSE IF imp THEN "ChatGoogleGenerativeAI"
    ELSE "None"

----------------------------------------------------------------------------
(* plan_trip *)

\* mutant: "x if x is not None else default", which keeps the empty string
OrDefault_IsNotNone(opt, default) ==
    IF opt # <<>> THEN opt[1] ELSE default

\* "x or default" for an Optional[str]: None and "" are both falsy
OrDefault(opt, default) ==
    IF opt # <<>> /\ opt[1] # <<>> THEN opt[1] ELSE default

\* ', '.join(interests) if interests else 'General exploration'
InterestsText(ti) ==
    IF ti.interests # <<>>
    THEN Join(<<",", " ">>, ti.interests)
    ELSE <<"General exploration">>

summary_prompt(ti) ==
    <<"You are a smart travel agent. Analyze the following user preferences:\n",
      "- Destination: ">>
    \o ti.destination \o <<" (">> \o OrDefault(ti.area, <<"general area">>)
    \o <<")", "\n- Duration: ">> \o IntToStr(ti.duration_days)
    \o <<" days\n- Budget: ₹">> \o IntToStr(ti.budget)
    \o <<" total\n- Travel type: ">> \o ti.travel_type
    \o <<"\n", "- Interests: ">> \o InterestsText(ti)
    \o <<"\n", "\nGive a concise summary and note any constraints or considerations.">>

\* f"{area}, {destination}" if area else destination
area_text(ti) ==
    IF ti.area # <<>> /\ ti.area[1] # <<>>
    THEN ti.area[1] \o <<",", " ">> \o ti.destination
    ELSE ti.destination

hotel_prompt(ti) ==
    <<"Recommend 2 ">> \o ti.travel_type
    \o <<"-friendly accommodation options ", "in or near ">> \o area_text(ti)
    \o <<"\n", "for ">> \o IntToStr(ti.duration_days)
    \o <<" days stay under ₹">> \o IntToStr(ti.budget)
    \o <<" total.\n\nFor each option include:\n- Name\n- Approximate price per night\n- Total cost\n- Why it's a good choice">>

places_prompt(ti) ==
    <<"Suggest 5 must-visit places in or near ">> \o ti.destination
    \o <<" focusing on:\n", "- Interests: ">> \o InterestsText(ti)
    \o <<"\n", "- Budget constraints (travel type: ">> \o ti.travel_type
    \o <<")\n- Located ", "within 10-15 km of ">> \o OrDefault(ti.area, ti.destination)
    \o <<"\n", "\nInclude place name and reason to visit.">>

\* mutant: the sightseeing line repeats the hotel text
cost_prompt_HotelTwice(ti, st) ==
    <<"Estimate the total travel cost for this ">> \o IntToStr(ti.duration_days)
    \o <<"-day trip to ">> \o ti.destination
    \o <<" with the following:\n", "- Hotel: ">> \o st["hotel_options"]
    \o <<"\n", "- Sightseeing: ">> \o st["hotel_options"]
    \o <<"\n", "\nBreak down cost for:\n- Hotel stay\n- Transport/local travel\n- Food\n- Entry tickets (if any)\n- Misc\n\nGive total cost and whether it's within ₹">>
    \o IntToStr(ti.budget) \o <<".">>

cost_prompt(ti, st) ==
    <<"Estimate the total travel cost for this ">> \o IntToStr(ti.duration_days)
    \o <<"-day trip to ">> \o ti.destination
    \o <<" with the following:\n", "- Hotel: ">> \o st["hotel_options"]
    \o <<"\n", "- Sightseeing: ">> \o st["places_to_visit"]
    \o <<"\n", "\nBreak down cost for:\n- Hotel stay\n- Transport/local travel\n- Food\n- Entry tickets (if any)\n- Misc\n\nGive total cost and whether it's within ₹">>
    \o IntToStr(ti.budget) \o <<".">>

\* mutant: the places section is filled from the hotel text
full_plan_HotelTwice(st) ==
    <<"Travel Summary:", "\n">> \o st["travel_summary"]
    \o <<"\n\n", "Hotel Options:", "\n">> \o st["hotel_options"]
    \o <<"\n\n", "Places to Visit:", "\n">> \o st["hotel_options"]
    \o <<"\n\n", "Cost Estimate:", "\n">> \o st["cost_estimate"]

\* Step 5: the f-string assembling full_plan
full_plan(st) ==
    <<"Travel Summary:", "\n">> \o st["travel_summary"]
    \o <<"\n\n", "Hotel Options:", "\n">> \o st["hotel_options"]
    \o <<"\n\n", "Places to Visit:", "\n">> \o st["places_to_visit"]
    \o <<"\n\n", "Cost Estimate:", "\n">> \o st["cost_estimate"]

\* the TravelPlan returned when get_llm() gives None
GuidancePlan ==
    [travel_summary |-> <<"Please set GOOGLE_API_KEY in .env file to use the travel planner.">>,
     hotel_options |-> <<>>,
     places_to_visit |-> <<>>,
     cost_estimate |-> <<>>,
     full_plan |-> <<"Please configure your API key to generate travel plans.">>]

\* the TravelPlan returned after the four steps
FinalPlan(st) ==
    [travel_summary |-> st["travel_summary"],
     hotel_options |-> st["hotel_options"],
     places_to_visit |-> st["places_to_visit"],
     cost_estimate |-> st["cost_estimate"],
     full_plan |-> full_plan(st)]

\* the model-invoking steps, in program order
Steps == <<"summary", "hotel", "places", "cost">>

\* the key of state the step's extracted text is stored under
StateKey(step) ==
    CASE step = "summary" -> "travel_summary"
      [] step = "hotel" -> "hotel_options"
      [] step = "places" -> "places_to_visit"
      [] step = "cost" -> "cost_estimate"

\* the prompt the step passes to llm.invoke
PromptOf(step, ti, st) ==
    CASE step = "summary" -> summary_prompt(ti)
      [] step = "hotel" -> hotel_prompt(ti)
      [] step = "places" -> places_prompt(ti)
      [] step = "cost" -> cost_prompt(ti, st)

\* mutant: the places step is written before the hotel step
AfterStep_PlacesFirst(step) ==
    CASE step = "summary" -> "places"
      [] step = "places" -> "hotel"
      [] step = "hotel" -> "cost"
      [] step = "cost" -> "assemble"

\* the statement that follows the step
AfterStep(step) ==
    CASE step = "summary" -> "hotel"
      [] step = "hotel" -> "places"
      [] step = "places" -> "cost"
      [] step = "cost" -> "assemble"

----------------------------------------------------------------------------
(* create_plan *)

NoAnswer == [status |-> 0, detail |-> <<>>, plan |-> <<>>]

\* the response_model answer: 200 with the TravelPlan
Ok200(p) == [status |-> 200, detail |-> <<>>, plan |-> <<p>>]

\* mutant: a fixed detail in place of str(e)
Http500_Generic(msg) ==
    [status |-> 500, detail |-> <<"Internal Server Error">>, plan |-> <<>>]

\* HTTPException(status_code=500, detail=str(e)); e's message is msg
Http500(msg) == [status |-> 500, detail |-> msg, plan |-> <<>>]

\* the framework's answer to a body the TravelInput schema rejects
Http422 == [status |-> 422, detail |-> <<"validation error">>, plan |-> <<>>]

----------------------------------------------------------------------------
(* What the model service may do *)

\* raw responses of llm.invoke
PipelineResponses ==
    {PyStr(<<"x">>),
     PyMsg(PyStr(<<"y">>)),
     PyMsg(PyList(<<PyDict(<<TextKey>>, <<PyStr(<<"a">>)>>), PyStr(<<"b">>)>>)),
     PyMsg(PyList(<<>>))}

\* messages of the exceptions llm.invoke may raise
Errors == {<<"quota exceeded">>, <<"connection reset">>}

----------------------------------------------------------------------------
(* The handler as a state machine *)

Init ==
    /\ api_key \in {<<>>, <<<<>>>>, <<<<"k">>>>}
    /\ importable \in BOOLEAN
    /\ body \in Bodies
    /\ pc = "request"
    /\ invoking = FALSE
    /\ travel_input = <<>>
    /\ llm = "None"
    /\ state = <<>>
    /\ calls = <<>>
    /\ replies = <<>>
    /\ response = PyNone
    /\ extracted = <<>>
    /\ exc = <<>>
    /\ plan = <<>>
    /\ http = NoAnswer

\* POST /api/plan: the body is parsed into TravelInput before create_plan runs
Validate ==
    /\ pc = "request"
    /\ IF TravelInputValid(body)
       THEN /\ travel_input' = <<TravelInput(body)>>
            /\ pc' = "plan_trip"
            /\ http' = http
       ELSE /\ travel_input' = travel_input
            /\ pc' = "done"
            /\ http' = Http422
    /\ UNCHANGED <<api_key, importable, body, invoking, llm, state, calls,
                   replies, response, extracted, exc, plan>>

\* plan_trip up to the first prompt: get_llm(), the "if not llm" return
PlanTripBegin ==
    /\ pc = "plan_trip"
    /\ llm' = get_llm(api_key, importable)
    /\ IF llm' = "None"
       THEN /\ plan' = <<GuidancePlan>>
            /\ http' = Ok200(GuidancePlan)
            /\ pc' = "done"
       ELSE /\ plan' = plan
            /\ http' = http
            /\ pc' = "summary"
    /\ UNCHANGED <<api_key, importable, body, invoking, travel_input, state,
                   calls, replies, response, extracted, exc>>

\* a step builds its prompt and calls llm.invoke, which blocks
InvokeCall ==
    /\ pc \in {"summary", "hotel", "places", "cost"}
    /\ ~invoking
    /\ calls' = Append(calls, [step |-> pc,
                               prompt |-> PromptOf(pc, travel_input[1], state)])
    /\ invoking' = TRUE
    /\ UNCHANGED <<api_key, importable, body, pc, travel_input, llm, state,
                   replies, response, extracted, exc, plan, http>>

\* llm.invoke returns; the step stores the extracted text in state
InvokeReturn ==
    /\ invoking
    /\ \E raw \in PipelineResponses :
        /\ replies' = Append(replies, raw)
        /\ response' = raw
        /\ extracted' = extract_content(raw)
        /\ state' = (StateKey(pc) :> extract_content(raw)) @@ state
    /\ invoking' = FALSE
    /\ pc' = AfterStep(pc)
    /\ UNCHANGED <<api_key, importable, body, travel_input, llm, calls, exc,
                   plan, http>>

\* llm.invoke raises; nothing in plan_trip catches it, create_plan's
\* "except Exception" turns it into the 500 answer
InvokeRaise ==
    /\ invoking
    /\ \E msg \in Errors :
        /\ exc' = <<msg>>
        /\ http' = Http500(msg)
    /\ invoking' = FALSE
    /\ pc' = "done"
    /\ UNCHANGED <<api_key, importable, body, travel_input, llm, state, calls,
                   replies, response, extracted, plan>>

\* Step 5 and the return of the TravelPlan
Assemble ==
    /\ pc = "assemble"
    /\ plan' = <<FinalPlan(state)>>
    /\ http' = Ok200(FinalPlan(state))
    /\ pc' = "done"
    /\ UNCHANGED <<api_key, importable, body, invoking, travel_input, llm,
                   state, calls, replies, response, extracted, exc>>

Next ==
    \/ Validate
    \/ PlanTripBegin
    \/ InvokeCall
    \/ InvokeReturn
    \/ InvokeRaise
    \/ Assemble

Spec == Init /\ [][Next]_vars

----------------------------------------------------------------------------
(* extract_content on its own: every shape of raw response *)

IdKey == <<"i", "d">>
Hello == <<"h", "e", "l", "l", "o">>

\* the chunks a content list is made of
ChunkValues ==
    {PyStr(<<"a">>), PyStr(<<"b">>), PyInt(42), PyNone,
     PyDict(<<TextKey>>, <<PyStr(<<"a">>)>>),
     PyDict(<<TextKey>>, <<PyStr(<<"b">>)>>),
     PyDict(<<TextKey>>, <<PyInt(7)>>),
     PyDict(<<IdKey>>, <<PyStr(<<"a">>)>>),
     PyDict(<<IdKey, TextKey>>, <<PyInt(1), PyStr(<<"b">>)>>),
     PyDict(<<>>, <<>>)}

ContentLists == {PyList(l) : l \in SeqsUpTo(ChunkValues, MaxChunks)}

\* what a content field may hold
Contents ==
    ContentLists \cup
    {PyStr(<<"x">>), PyStr(<<>>), PyInt(42), PyNone,
     PyDict(<<TextKey>>, <<PyStr(<<"a">>)>>)}

RawResponses ==
    {PyStr(Hello), PyStr(<<>>), PyInt(42), PyInt(0), PyInt(-7), PyNone,
     PyList(<<>>), PyList(<<PyStr(<<"a">>), PyInt(42)>>),
     PyDict(<<>>, <<>>), PyDict(<<TextKey>>, <<PyStr(<<"a">>)>>)}
    \cup {PyMsg(c) : c \in Contents}
    \cup {PyDict(<<ContentKey>>, <<c>>) :
            c \in {PyStr(<<"x">>), PyInt(42), PyList(<<>>),
                   PyList(<<PyDict(<<TextKey>>, <<PyStr(<<"a">>)>>),
                            PyStr(<<"b">>)>>)}}

InitExtract ==
    /\ api_key = <<>>
    /\ importable = FALSE
    /\ body = [destination |-> <<Goa>>, area |-> <<>>, duration_days |-> 3,
               budget |-> 30000, travel_type |-> <<Budget>>,
               interests |-> <<>>]
    /\ pc = "extract"
    /\ invoking = FALSE
    /\ travel_input = <<>>
    /\ llm = "None"
    /\ state = <<>>
    /\ calls = <<>>
    /\ replies = <<>>
    /\ response \in RawResponses
    /\ extracted = <<>>
    /\ exc = <<>>
    /\ plan = <<>>
    /\ http = NoAnswer

\* one call of extract_content(response)
ExtractContent ==
    /\ pc = "extract"
    /\ extracted' = extract_content(response)
    /\ pc' = "extracted"
    /\ UNCHANGED <<api_key, importable, body, invoking, travel_input, llm,
                   state, calls, replies, response, exc, plan, http>>

NextExtract == ExtractContent

SpecExtract == InitExtract /\ [][NextExtract]_vars

----------------------------------------------------------------------------
(* Vocabulary of the properties *)

\* t contains sub as a contiguous run of tokens
Contains(t, sub) ==
    \E i \in 0..(Len(t) - Len(sub)) : SubSeq(t, i + 1, i + Len(sub)) = sub

\* GOOGLE_API_KEY is set to a non-empty value
CredentialConfigured == api_key # <<>> /\ api_key[1] # <<>>

\* the request passed validation
Accepted == travel_input # <<>>

\* the full_plan of the fixed guidance plan
GuidanceFullPlan == <<"Please configure your API key to generate travel plans.">>

\* the four texts of a plan under the fixed headers, in order
HeaderedConcat(p) ==
    <<"Travel Summary:", "\n">> \o p.travel_summary \o <<"\n\n">>
    \o <<"Hotel Options:", "\n">> \o p.hotel_options \o <<"\n\n">>
    \o <<"Places to Visit:", "\n">> \o p.places_to_visit \o <<"\n\n">>
    \o <<"Cost Estimate:", "\n">> \o p.cost_estimate

\* the prompt of the i-th invocation
PromptAt(i) == calls[i].prompt

----------------------------------------------------------------------------
(* C1 *)

\* C1: with GOOGLE_API_KEY unset or empty no model invocation is ever made
\* and nothing is raised; an accepted request ends with the guidance plan,
\* whose travel_summary and full_plan are non-empty and whose hotel_options,
\* places_to_visit and cost_estimate are the empty string.
C1_NoCredentialGuidance ==
    ~CredentialConfigured =>
        /\ calls = <<>>
        /\ exc = <<>>
        /\ http.status # 500
        /\ (pc = "done" /\ Accepted) =>
            /\ plan # <<>>
            /\ plan[1].travel_summary # <<>>
            /\ plan[1].full_plan # <<>>
            /\ plan[1].hotel_options = <<>>
            /\ plan[1].places_to_visit = <<>>
            /\ plan[1].cost_estimate = <<>>
            /\ http.status = 200
            /\ http.plan = plan

C1_Witness ==
    /\ pc = "done"
    /\ Accepted
    /\ api_key = <<<<>>>>
    /\ importable
    /\ plan # <<>>

----------------------------------------------------------------------------
(* C2 *)

\* C2: the invocations are made in the order summary, hotel, places, cost,
\* at most one is in flight and the next one starts only after the previous
\* one returned; a run with an available adapter and no failure ends with
\* exactly 4 invocations and a plan whose four texts are the extracted texts
\* of the 1st to 4th response.
C2_FourCallsInOrder ==
    /\ Len(calls) <= 4
    /\ \A i \in 1..Len(calls) : calls[i].step = Steps[i]
    /\ Len(calls) = Len(replies) + (IF invoking \/ exc # <<>> THEN 1 ELSE 0)
    /\ (pc = "done" /\ llm # "None" /\ exc = <<>>) =>
        /\ Len(calls) = 4
        /\ Len(replies) = 4
        /\ plan # <<>>
        /\ plan[1].travel_summary = extract_content(replies[1])
        /\ plan[1].hotel_options = extract_content(replies[2])
        /\ plan[1].places_to_visit = extract_content(replies[3])
        /\ plan[1].cost_estimate = extract_content(replies[4])

C2_Witness ==
    /\ pc = "done"
    /\ Len(calls) = 4
    /\ plan # <<>>
    /\ plan[1].travel_summary = <<"x">>
    /\ plan[1].hotel_options = <<"y">>
    /\ plan[1].places_to_visit = <<"a", "b">>
    /\ plan[1].cost_estimate = <<>>

----------------------------------------------------------------------------
(* C3 *)

\* C3 as claimed: every returned plan's full_plan is the headered
\* concatenation of its own four texts.
C3_Original ==
    plan # <<>> => plan[1].full_plan = HeaderedConcat(plan[1])

\* C3, amended: a plan returned after the model invocations has full_plan
\* equal to the headered concatenation of its own four texts, whatever they
\* are; the guidance plan returned without any invocation carries the fixed
\* guidance sentence as full_plan instead.
C3_FullPlanAfterInvocations ==
    plan # <<>> =>
        IF calls # <<>>
        THEN plan[1].full_plan = HeaderedConcat(plan[1])
        ELSE plan[1].full_plan = GuidanceFullPlan

C3_Witness ==
    /\ plan # <<>>
    /\ Len(calls) = 4
    /\ plan[1].hotel_options = <<"x">>
    /\ plan[1].places_to_visit = <<"a", "b">>
    /\ plan[1].cost_estimate = <<>>

----------------------------------------------------------------------------
(* C4 *)

\* C4: once an invocation has failed no plan is returned, the answer is 500
\* with the exception's message as detail, the failed invocation is the last
\* one made (no later step, no retry) and the handler is finished.
C4_FailureAborts ==
    exc # <<>> =>
        /\ plan = <<>>
        /\ http.status = 500
        /\ http.detail = exc[1]
        /\ http.plan = <<>>
        /\ pc = "done"
        /\ ~invoking
        /\ Len(calls) = Len(replies) + 1
        /\ \A i, j \in 1..Len(calls) : calls[i].step = calls[j].step => i = j

C4_Witness ==
    /\ exc = <<<<"quota exceeded">>>>
    /\ Len(calls) = 3
    /\ http.status = 500

----------------------------------------------------------------------------
(* C5 *)

\* C5: a request whose duration_days or budget is 0 or negative is never
\* accepted: plan_trip does not run, no invocation is made and the answer is
\* the validation error.
C5_NonPositiveRejected ==
    (body.duration_days <= 0 \/ body.budget <= 0) =>
        /\ ~Accepted
        /\ calls = <<>>
        /\ plan = <<>>
        /\ pc \in {"request", "done"}
        /\ (pc = "done" => http.status = 422)

C5_Witness ==
    /\ pc = "done"
    /\ body.duration_days = 0
    /\ body.budget = 30000
    /\ body.destination = <<Goa>>
    /\ body.travel_type = <<Budget>>
    /\ CredentialConfigured
    /\ importable
    /\ http.status = 422

----------------------------------------------------------------------------
(* C6 *)

\* C6 as claimed: a request whose destination or travel_type is missing or
\* is the empty string is rejected before the pipeline runs, so no model
\* invocation is made for it.
C6_Original ==
    (body.destination \in {<<>>, <<<<>>>>} \/ body.travel_type \in {<<>>, <<<<>>>>}) =>
        /\ ~Accepted
        /\ calls = <<>>

----------------------------------------------------------------------------
(* C7 *)

\* the text a chunk contributes, as the claim words it: a structured chunk
\* gives its 'text' value, or the empty string without a 'text' key; any
\* other chunk gives its stringification
RefChunk(c) ==
    IF c.kind # "dict" THEN PyStrOf(c)
    ELSE IF \A i \in 1..Len(c.keys) : c.keys[i] # TextKey THEN <<>>
    ELSE LET i == CHOOSE k \in 1..Len(c.keys) : c.keys[k] = TextKey
         IN  PyStrOf(c.items[i])

\* the in-order concatenation of the chunks' texts
RefConcat(chunks) ==
    LET f[k \in 0..Len(chunks)] ==
            IF k = 0 THEN <<>> ELSE f[k - 1] \o RefChunk(chunks[k])
    IN  f[Len(chunks)]

\* the reference, given the content the response carries: <<>> when it
\* carries none, <<content>> when it does
RefExtract(r, carried) ==
    IF r.kind = "str" THEN r.s
    ELSE IF carried = <<>> THEN PyStrOf(r)
    ELSE IF carried[1].kind = "list" THEN RefConcat(carried[1].items)
    ELSE PyStrOf(carried[1])

\* the content of a message object
AttrContent(r) == IF r.kind = "msg" THEN <<r.items[1]>> ELSE <<>>

\* the content of a mapping with a "content" key
KeyContent(r) ==
    IF r.kind = "dict" /\ \E i \in 1..Len(r.keys) : r.keys[i] = ContentKey
    THEN <<r.items[CHOOSE i \in 1..Len(r.keys) : r.keys[i] = ContentKey]>>
    ELSE <<>>

\* C7 as claimed: extract_content agrees with the reference in which a
\* response carries content as an attribute or as the mapping {content: ...}.
C7_Original ==
    pc = "extracted" =>
        extracted = RefExtract(response, AttrContent(response) \o KeyContent(response))

\* C7, amended: extract_content agrees with the reference in which only an
\* object with a content attribute carries content; a mapping
\* {content: ...} has no such attribute and is stringified whole. A plain
\* text comes back unchanged, a content list gives the in-order
\* concatenation of its chunks' texts, any other content is stringified.
\* With msg(c) an object whose content is c: extract("hello") = "hello",
\* extract(msg("x")) = "x", extract(msg([{text:"a"},{text:"b"}])) = "ab",
\* extract(msg([{text:"a"}, "b"])) = "ab", extract(42) = "42", and
\* extract({content: "x"}) = "{'content': 'x'}".
C7_ExtractMatchesReference ==
    pc = "extracted" =>
        /\ extracted = RefExtract(response, AttrContent(response))
        /\ response = PyStr(Hello) => extracted = Hello
        /\ response = PyMsg(PyStr(<<"x">>)) => extracted = <<"x">>
        /\ response = PyMsg(PyList(<<PyDict(<<TextKey>>, <<PyStr(<<"a">>)>>),
                                     PyDict(<<TextKey>>, <<PyStr(<<"b">>)>>)>>))
                => extracted = <<"a", "b">>
        /\ response = PyMsg(PyList(<<PyDict(<<TextKey>>, <<PyStr(<<"a">>)>>),
                                     PyStr(<<"b">>)>>))
                => extracted = <<"a", "b">>
        /\ response = PyMsg(PyList(<<PyDict(<<IdKey>>, <<PyStr(<<"a">>)>>),
                                     PyStr(<<"b">>)>>))
                => extracted = <<"b">>
        /\ response = PyInt(42) => extracted = <<"4", "2">>
        /\ response = PyDict(<<ContentKey>>, <<PyStr(<<"x">>)>>)
                => extracted = <<"{", "'">> \o ContentKey
                                \o <<"'", ":", " ", "'", "x", "'", "}">>

C7_Witness ==
    /\ pc = "extracted"
    /\ response = PyMsg(PyList(<<PyDict(<<IdKey>>, <<PyStr(<<"a">>)>>),
                                 PyStr(<<"b">>)>>))
    /\ extracted = <<"b">>

----------------------------------------------------------------------------
(* C8 *)

\* C8: the cost prompt carries the extracted hotel text and the extracted
\* places text of the same request verbatim; the summary, hotel and places
\* prompts are what the request fields alone give (no earlier output enters
\* them).
C8_CostPromptFanIn ==
    /\ Len(calls) >= 4 =>
        /\ Contains(PromptAt(4), <<"- Hotel: ">> \o extract_content(replies[2]) \o <<"\n">>)
        /\ Contains(PromptAt(4), <<"- Sightseeing: ">> \o extract_content(replies[3]) \o <<"\n">>)
    /\ \A i \in 1..Len(calls) :
        i <= 3 => PromptAt(i) = PromptOf(Steps[i], travel_input[1], <<>>)

C8_Witness ==
    /\ Len(calls) = 4
    /\ extract_content(replies[2]) = <<"a", "b">>
    /\ extract_content(replies[3]) = <<"x">>

----------------------------------------------------------------------------
(* C9 *)

\* the defaults for empty interests in the summary and places prompts
InterestsDefaulted ==
    travel_input[1].interests = <<>> =>
        /\ Len(calls) >= 1 =>
            Contains(PromptAt(1), <<"- Interests: ", "General exploration", "\n">>)
        /\ Len(calls) >= 3 =>
            Contains(PromptAt(3), <<"- Interests: ", "General exploration", "\n">>)

\* the prompts of a request whose area counts as absent
AreaDefaulted ==
    /\ Len(calls) >= 1 =>
        Contains(PromptAt(1), <<" (", "general area", ")">>)
    /\ Len(calls) >= 2 =>
        Contains(PromptAt(2), <<"in or near ">> \o travel_input[1].destination \o <<"\n">>)
    /\ Len(calls) >= 3 =>
        Contains(PromptAt(3), <<"within 10-15 km of ">> \o travel_input[1].destination \o <<"\n">>)

\* the prompts of a request whose area a is used
AreaUsed(a) ==
    /\ Len(calls) >= 2 =>
        Contains(PromptAt(2), <<"in or near ">> \o a \o <<",", " ">>
                                \o travel_input[1].destination \o <<"\n">>)
    /\ Len(calls) >= 3 =>
        Contains(PromptAt(3), <<"within 10-15 km of ">> \o a \o <<"\n">>)

\* C9 as claimed: the area default applies when area is unset, and whenever
\* area is set the hotel prompt names 'area, destination' and the places
\* radius is measured from the area.
C9_Original ==
    Accepted =>
        /\ InterestsDefaulted
        /\ travel_input[1].area = <<>> => AreaDefaulted
        /\ travel_input[1].area # <<>> => AreaUsed(travel_input[1].area[1])

\* C9, amended: empty interests give 'General exploration' in the summary
\* and places prompts; an area that is unset or the empty string gives
\* 'general area' in the summary prompt and the destination alone in the
\* hotel and places prompts; a non-empty area gives 'area, destination' in
\* the hotel prompt and the places radius measured from the area.
C9_DefaultsInPrompts ==
    Accepted =>
        /\ InterestsDefaulted
        /\ travel_input[1].area \in {<<>>, <<<<>>>>} => AreaDefaulted
        /\ travel_input[1].area \notin {<<>>, <<<<>>>>} =>
                AreaUsed(travel_input[1].area[1])

C9_Witness ==
    /\ Accepted
    /\ Len(calls) >= 3
    /\ travel_input[1].area = <<<<>>>>
    /\ travel_input[1].interests = <<>>

----------------------------------------------------------------------------
(* C10 *)

\* what C10 promises of a run
NeverGuidance ==
    /\ plan # <<>> => plan[1].full_plan # GuidanceFullPlan
    /\ (pc = "done" /\ Accepted) =>
        \/ Len(calls) = 4 /\ http.status = 200 /\ plan # <<>>
        \/ http.status = 500 /\ plan = <<>>

\* C10 as claimed: whenever a credential is configured plan_trip never
\* returns the guidance plan; it makes the four invocations and returns
\* their plan, or propagates an error.
C10_Original == CredentialConfigured => NeverGuidance

\* C10, amended: whenever a credential is configured and the model client
\* library can be imported, plan_trip never returns the guidance plan; it
\* makes the four invocations and returns their plan, or propagates an
\* error. (With the credential configured and the library missing, get_llm
\* gives None and the guidance plan is returned.)
C10_AvailableNeverGuidance ==
    (CredentialConfigured /\ importable) => NeverGuidance

C10_Witness ==
    /\ pc = "done"
    /\ Accepted
    /\ CredentialConfigured
    /\ importable
    /\ Len(calls) = 4
    /\ http.status = 200

====
